---- MODULE Spec2Model ----
(***************************************************************************)
(* exifcheck: the -r removal specification parser, the compaction of the   *)
(* deletion plan and the pipeline that feeds the plan to the exif library. *)
(* Strings are sequences of one-character strings, so strings.Split and    *)
(* strconv.ParseInt/ParseUint are computed on the text of the option.      *)
(***************************************************************************)
EXTENDS Integers, Sequences, FiniteSets, TLC

VARIABLES cmd, groups, args, parsed, parseErr, pc, gi, ti, ii,
          calls, failedAt, openFiles, exitCode

vars == <<cmd, groups, args, parsed, parseErr, pc, gi, ti, ii,
          calls, failedAt, openFiles, exitCode>>

(***************************************************************************)
(* Bounds of the explored inputs.                                          *)
(***************************************************************************)
MaxGroups == 3
MaxTags == 2
MaxTokLen == 3

Range(s) == {s[i] : i \in 1..Len(s)}

(***************************************************************************)
(* strconv: ParseUint(s, 0, 64) and ParseInt(s, 0, 64).  The tokens of the *)
(* model are at most a few characters long, so the 64-bit range checks of  *)
(* strconv never trigger and are left out.                                 *)
(***************************************************************************)
DecDigits == <<"0", "1", "2", "3", "4", "5", "6", "7", "8", "9">>
LowerLetters == <<"a", "b", "c", "d", "e", "f", "g", "h", "i", "j", "k", "l", "m",
                  "n", "o", "p", "q", "r", "s", "t", "u", "v", "w", "x", "y", "z">>
UpperLetters == <<"A", "B", "C", "D", "E", "F", "G", "H", "I", "J", "K", "L", "M",
                  "N", "O", "P", "Q", "R", "S", "T", "U", "V", "W", "X", "Y", "Z">>

IndexOf(seq, c) == CHOOSE i \in 1..Len(seq) : seq[i] = c

\* lower(c): the letter in lower case, any other character as it is.
lower(c) == IF c \in Range(UpperLetters)
            THEN LowerLetters[IndexOf(UpperLetters, c)]
            ELSE c

\* The value of a character as a digit; 99 stands for "not a digit".
digitVal(c) == IF c \in Range(DecDigits) THEN IndexOf(DecDigits, c) - 1
               ELSE IF lower(c) \in Range(LowerLetters)
                    THEN IndexOf(LowerLetters, lower(c)) + 9
                    ELSE 99

Tail2(s) == SubSeq(s, 3, Len(s))

\* Base 0: the base comes from the prefix, "0x" 16, "0b" 2, "0o" 8, "0" 8.
prefixBase(s) == IF s[1] # "0" THEN 10
                 ELSE IF Len(s) >= 3 /\ lower(s[2]) = "b" THEN 2
                 ELSE IF Len(s) >= 3 /\ lower(s[2]) = "o" THEN 8
                 ELSE IF Len(s) >= 3 /\ lower(s[2]) = "x" THEN 16
                 ELSE 8

prefixRest(s) == IF s[1] # "0" THEN s
                 ELSE IF Len(s) >= 3 /\ lower(s[2]) \in {"b", "o", "x"} THEN Tail2(s)
                 ELSE Tail(s)

\* The digit loop of ParseUint: "_" is skipped (base 0), a character that is
\* no digit of the base is a syntax error.
RECURSIVE digitLoop(_, _, _, _)
digitLoop(s, i, base, n) ==
    IF i > Len(s) THEN [err |-> FALSE, val |-> n]
    ELSE IF s[i] = "_" THEN digitLoop(s, i + 1, base, n)
    ELSE IF digitVal(s[i]) >= base THEN [err |-> TRUE, val |-> 0]
    ELSE digitLoop(s, i + 1, base, n * base + digitVal(s[i]))

\* underscoreOK: underscores only between digits or between the base prefix
\* and a digit.  saw is "^" at the start, "0" after a digit (or the prefix),
\* "_" after an underscore, "!" after anything else.
RECURSIVE underscoreLoop(_, _, _, _)
underscoreLoop(s, i, hex, saw) ==
    IF i > Len(s) THEN saw # "_"
    ELSE IF s[i] \in Range(DecDigits) \/ (hex /\ digitVal(s[i]) \in 10..15)
         THEN underscoreLoop(s, i + 1, hex, "0")
    ELSE IF s[i] = "_"
         THEN IF saw # "0" THEN FALSE ELSE underscoreLoop(s, i + 1, hex, "_")
    ELSE IF saw = "_" THEN FALSE
    ELSE underscoreLoop(s, i + 1, hex, "!")

underscoreOK(s0) ==
    LET s == IF Len(s0) >= 1 /\ s0[1] \in {"-", "+"} THEN Tail(s0) ELSE s0
        pre == Len(s) >= 2 /\ s[1] = "0" /\ lower(s[2]) \in {"b", "o", "x"}
    IN  underscoreLoop(s, IF pre THEN 3 ELSE 1, pre /\ lower(s[2]) = "x",
                       IF pre THEN "0" ELSE "^")

ParseUint(s) ==
    IF s = <<>> THEN [err |-> TRUE, val |-> 0]
    ELSE LET r == digitLoop(prefixRest(s), 1, prefixBase(s), 0)
         IN  IF r.err THEN r
             ELSE IF "_" \in Range(prefixRest(s)) /\ ~underscoreOK(s)
                  THEN [err |-> TRUE, val |-> 0]
                  ELSE r

ParseInt(s) ==
    IF s = <<>> THEN [err |-> TRUE, val |-> 0]
    ELSE LET neg == s[1] = "-"
             body == IF s[1] \in {"+", "-"} THEN Tail(s) ELSE s
             r == ParseUint(body)
         IN  IF r.err THEN r
             ELSE [err |-> FALSE, val |-> IF neg THEN 0 - r.val ELSE r.val]

(***************************************************************************)
(* strings.Split(s, sep) for a one-character separator.                    *)
(***************************************************************************)
RECURSIVE Split(_, _)
Split(s, sep) ==
    IF \A i \in 1..Len(s) : s[i] # sep THEN <<s>>
    ELSE LET i == CHOOSE k \in 1..Len(s) :
                      s[k] = sep /\ \A j \in 1..(k - 1) : s[j] # sep
         IN  <<SubSeq(s, 1, i - 1)>> \o Split(SubSeq(s, i + 1, Len(s)), sep)

(***************************************************************************)
(* parseRemoveString: syntax ifdId[:tagId]*[,ifdId[:tagId]*]*              *)
(***************************************************************************)
\* exif.IfdId(ifid): the conversion is injective on the values of the model,
\* so an id is represented by the integer that was parsed.
IfdId(ifid) == ifid

\* A faulty variant of parseTags: the loop stops one tag early.
RECURSIVE tagLoopShort(_, _, _)
tagLoopShort(tags, i, acc) ==
    IF i >= Len(tags) THEN [err |-> FALSE, tags |-> acc]
    ELSE LET tag == ParseUint(tags[i])
         IN  IF tag.err THEN [err |-> TRUE, tags |-> acc]
             ELSE tagLoopShort(tags, i + 1, Append(acc, tag.val))

parseTags_DropsLast(tags) == tagLoopShort(tags, 2, <<>>)

\* for i := 1; i < len(tags); i++: the tags parsed so far are already stored
\* in the group when a tag fails to parse.
RECURSIVE tagLoop(_, _, _)
tagLoop(tags, i, acc) ==
    IF i > Len(tags) THEN [err |-> FALSE, tags |-> acc]
    ELSE LET tag == ParseUint(tags[i])
         IN  IF tag.err THEN [err |-> TRUE, tags |-> acc]
             ELSE tagLoop(tags, i + 1, Append(acc, tag.val))

parseTags(tags) == tagLoop(tags, 2, <<>>)

\* for _, ifdId := range ifdIds: pArgs is updated in place, group by group.
RECURSIVE groupLoop(_, _, _, _)
groupLoop(ifdIds, k, removeIfds, removeTags) ==
    IF k > Len(ifdIds)
    THEN [err |-> FALSE, removeIfds |-> removeIfds, removeTags |-> removeTags]
    ELSE LET tags == Split(ifdIds[k], ":")
             ifid == ParseInt(tags[1])
         IN  IF ifid.err
             THEN [err |-> TRUE, removeIfds |-> removeIfds, removeTags |-> removeTags]
             ELSE IF Len(tags) = 1
             THEN groupLoop(ifdIds, k + 1, Append(removeIfds, IfdId(ifid.val)), removeTags)
             ELSE LET t == parseTags(tags)
                      g == [ifdId |-> IfdId(ifid.val), tags |-> t.tags]
                  IN  IF t.err
                      THEN [err |-> TRUE, removeIfds |-> removeIfds,
                            removeTags |-> Append(removeTags, g)]
                      ELSE groupLoop(ifdIds, k + 1, removeIfds, Append(removeTags, g))

\* A faulty variant of toKeep: only the first whole-IFD removal is compared.
toKeep_FirstOnly(removeIfds, g) ==
    \A k \in 1..Len(removeIfds) : k = 1 => removeIfds[k] # g.ifdId

\* The inner loop of the compaction: no removed IFD is the group's IFD.
toKeep(removeIfds, g) ==
    \A k \in 1..Len(removeIfds) : removeIfds[k] # g.ifdId

\* The compaction loop, with the 0-based i, p and n of the code.
RECURSIVE compactLoop(_, _, _, _, _)
compactLoop(removeIfds, rt, i, p, n) ==
    IF i >= Len(rt) THEN SubSeq(rt, 1, n)
    ELSE IF toKeep(removeIfds, rt[i + 1])
         THEN IF p # -1
              THEN compactLoop(removeIfds, [rt EXCEPT ![p + 1] = rt[i + 1]], i + 1, p + 1, n + 1)
              ELSE compactLoop(removeIfds, rt, i + 1, p, n + 1)
         ELSE compactLoop(removeIfds, rt, i + 1, IF p = -1 THEN i ELSE p, n)

\* A faulty variant of compactTags: the kept groups are counted but never moved down.
compactTags_NoMove(removeIfds, removeTags) ==
    SubSeq(removeTags, 1,
           Cardinality({i \in 1..Len(removeTags) : toKeep(removeIfds, removeTags[i])}))

compactTags(removeIfds, removeTags) == compactLoop(removeIfds, removeTags, 0, -1, 0)

\* Lines 128-149 on the plan r the parsing loop left: the compaction, and the
\* plan as it stood when the parsing loop ended (asParsed).
compactPlan(r) ==
    [err |-> FALSE, removeIfds |-> r.removeIfds,
     removeTags |-> compactTags(r.removeIfds, r.removeTags),
     asParsed |-> [removeIfds |-> r.removeIfds, removeTags |-> r.removeTags]]

\* An error return from the parsing loop: pArgs keeps what was stored.
abandonPlan(r) ==
    [err |-> TRUE, removeIfds |-> r.removeIfds, removeTags |-> r.removeTags,
     asParsed |-> [removeIfds |-> r.removeIfds, removeTags |-> r.removeTags]]

finishPlan(r) == IF r.err THEN abandonPlan(r) ELSE compactPlan(r)

\* The whole function on a fresh exifArgs: err and the plan left in pArgs.
parseRemoveString(toRemove) ==
    finishPlan(groupLoop(Split(toRemove, ","), 1, <<>>, <<>>))

(***************************************************************************)
(* getArgs                                                                 *)
(***************************************************************************)
\* new( exifArgs ): every field at its zero value.
ZeroArgs ==
    [input |-> "", output |-> "", print |-> "", original |-> "", tName |-> "",
     mtName |-> "", removeIfds |-> <<>>, removeTags |-> <<>>,
     pTiff |-> FALSE, pExif |-> FALSE, pMaker |-> FALSE, pThumb |-> FALSE,
     unknown |-> "Keep"]

NoPlan == [removeIfds |-> <<>>, removeTags |-> <<>>]

\* switch store[0]: the policy, or "" for an unknown action.
unknownPolicy(store) ==
    IF lower(store[1]) = "k" THEN "Keep"
    ELSE IF lower(store[1]) = "r" THEN "Remove"
    ELSE IF lower(store[1]) = "s" THEN "Stop"
    ELSE ""

\* What getArgs leaves when it stops early with the exit code given: no pArgs.
stopWith(code) ==
    [exit |-> code, args |-> ZeroArgs, parsed |-> NoPlan, parseErr |-> "notcalled"]

\* pArgs from the flags (lines 196-217).
flagArgs(c) ==
    [ZeroArgs EXCEPT
        !.input = c.arguments[1], !.output = c.output,
        !.print = c.print, !.original = c.original,
        !.tName = c.tName, !.mtName = c.mtName,
        !.pTiff = c.pTiff \/ c.all, !.pExif = c.pExif \/ c.all,
        !.pMaker = c.pMaker \/ c.all, !.pThumb = c.pThumb,
        !.unknown = unknownPolicy(c.store)]

\* Lines 219-222: r is what parseRemoveString returned and left in pArgs.  Its
\* error is not looked at by getArgs: it is kept in parseErr.
withPlan(a, r) ==
    [exit |-> -1,
     args |-> [a EXCEPT !.removeIfds = r.removeIfds, !.removeTags = r.removeTags],
     parsed |-> r.asParsed,
     parseErr |-> IF r.err THEN "error" ELSE "nil"]

\* getArgs on the command line c.  exit is -1 when getArgs returns pArgs and a
\* nil error, 0 for -v, 1 for an argument error (exifcheck prints it and
\* returns 1) and 2 when store[0] indexes an empty string (a run-time panic).
getArgs(c) ==
    IF c.version THEN stopWith(0)
    ELSE IF Len(c.arguments) < 1 THEN stopWith(1)
    ELSE IF Len(c.arguments) > 1 THEN stopWith(1)
    ELSE IF c.store = <<>> THEN stopWith(2)
    ELSE IF unknownPolicy(c.store) = "" THEN stopWith(1)
    ELSE IF c.toRemove # <<>>
         THEN withPlan(flagArgs(c), parseRemoveString(c.toRemove))
         ELSE [exit |-> -1, args |-> flagArgs(c), parsed |-> NoPlan,
               parseErr |-> "notcalled"]

(***************************************************************************)
(* exifcheck: the pipeline.  calls is the sequence of the calls made to    *)
(* the exif library and to os.OpenFile; failedAt is the index in calls of  *)
(* the first call that returned an error (0 when none did); openFiles are  *)
(* the files opened with os.OpenFile and not closed yet.                   *)
(***************************************************************************)
Call(op, id, tag, path) == [op |-> op, id |-> id, tag |-> tag, path |-> path]

Failed(ok) == IF ~ok /\ failedAt = 0 THEN Len(calls) + 1 ELSE failedAt

\* The IFDs to print, from -tiff, -exif and -maker.
ifdsToPrint(a) ==
    (IF a.pTiff THEN <<"PRIMARY", "THUMBNAIL">> ELSE <<>>)
    \o (IF a.pExif THEN <<"EXIF", "GPS", "IOP">> ELSE <<>>)
    \o (IF a.pMaker THEN <<"MAKER", "EMBEDDED">> ELSE <<>>)

\* exifcheck, lines 226-231, on what getArgs returned.
afterGetArgs(r) ==
    /\ args' = r.args
    /\ parsed' = r.parsed
    /\ parseErr' = r.parseErr
    /\ pc' = IF r.exit = -1 THEN "read" ELSE "done"
    /\ exitCode' = r.exit

GetArgs ==
    /\ pc = "getArgs"
    /\ afterGetArgs(getArgs(cmd))
    /\ UNCHANGED <<cmd, groups, gi, ti, ii, calls, failedAt, openFiles>>

Read ==
    /\ pc = "read"
    /\ \E ok \in BOOLEAN :
          /\ calls' = Append(calls, Call("Read", 0, 0, args.input))
          /\ failedAt' = Failed(ok)
          /\ pc' = IF ok THEN "thumbs" ELSE "done"
          /\ exitCode' = IF ok THEN exitCode ELSE 1
    /\ UNCHANGED <<cmd, groups, args, parsed, parseErr, gi, ti, ii, openFiles>>

ThumbnailInfo ==
    /\ pc = "thumbs"
    /\ calls' = IF args.pThumb
                THEN Append(calls, Call("GetThumbnailInfo", 0, 0, ""))
                ELSE calls
    /\ pc' = "format"
    /\ UNCHANGED <<cmd, groups, args, parsed, parseErr, gi, ti, ii, failedAt,
                   openFiles, exitCode>>

\* if len( ifds ) > 0: the print file is opened when -p names one, and is
\* never closed; FormatIfds returns nothing that is looked at.
Format ==
    /\ pc = "format"
    /\ \E ok \in BOOLEAN :
          LET doPrint == Len(ifdsToPrint(args)) > 0
              doOpen == doPrint /\ args.print # ""
              opened == IF doOpen THEN ok ELSE TRUE
          IN  /\ calls' = calls
                    \o (IF doOpen THEN <<Call("OpenFile", 0, 0, args.print)>> ELSE <<>>)
                    \o (IF doPrint /\ opened
                        THEN <<Call("FormatIfds", 0, 0, args.print)>> ELSE <<>>)
              /\ failedAt' = Failed(opened)
              /\ openFiles' = IF doOpen /\ ok THEN openFiles \cup {args.print}
                              ELSE openFiles
              /\ pc' = IF opened THEN "original" ELSE "done"
              /\ exitCode' = IF opened THEN exitCode ELSE 1
    /\ UNCHANGED <<cmd, groups, args, parsed, parseErr, gi, ti, ii>>

\* One optional extraction stage: the call is made when path is not empty,
\* and an error ends the run with 1.
Extract(at, op, path, next) ==
    /\ pc = at
    /\ \E ok \in BOOLEAN :
          LET done == IF path # "" THEN ok ELSE TRUE
          IN  /\ calls' = IF path # "" THEN Append(calls, Call(op, 0, 0, path))
                          ELSE calls
              /\ failedAt' = Failed(done)
              /\ pc' = IF done THEN next ELSE "done"
              /\ exitCode' = IF done THEN exitCode ELSE 1
    /\ UNCHANGED <<cmd, groups, args, parsed, parseErr, gi, ti, ii, openFiles>>

WriteOriginal == Extract("original", "WriteOriginal", args.original, "thumbnail")

WriteThumbnail ==
    Extract("thumbnail", "WriteThumbnail(THUMBNAIL)", args.tName, "makerThumb")

WriteMakerThumbnail ==
    Extract("makerThumb", "WriteThumbnail(EMBEDDED)", args.mtName, "removeTags")

InTagLoop == /\ gi <= Len(args.removeTags)
             /\ ti <= Len(args.removeTags[gi].tags)

\* md.RemoveTag( id, tag ): what it returns is not looked at.
RemoveTag ==
    /\ pc = "removeTags"
    /\ InTagLoop
    /\ \E ok \in BOOLEAN :
          /\ calls' = Append(calls, Call("RemoveTag", args.removeTags[gi].ifdId,
                                         args.removeTags[gi].tags[ti], ""))
          /\ failedAt' = Failed(ok)
    /\ ti' = ti + 1
    /\ UNCHANGED <<cmd, groups, args, parsed, parseErr, pc, gi, ii, openFiles,
                   exitCode>>

\* A faulty variant of RemoveTagsAdvance: the loop over the groups is left after the
\* first group.
RemoveTagsAdvance_Break ==
    /\ pc = "removeTags"
    /\ ~InTagLoop
    /\ pc' = "removeIfds"
    /\ UNCHANGED <<cmd, groups, args, parsed, parseErr, gi, ti, ii, calls,
                   failedAt, openFiles, exitCode>>

\* The loops over removeTags: the next group, or the end of the loop.
RemoveTagsAdvance ==
    /\ pc = "removeTags"
    /\ ~InTagLoop
    /\ pc' = IF gi > Len(args.removeTags) THEN "removeIfds" ELSE pc
    /\ gi' = IF gi > Len(args.removeTags) THEN gi ELSE gi + 1
    /\ ti' = 1
    /\ UNCHANGED <<cmd, groups, args, parsed, parseErr, ii, calls, failedAt,
                   openFiles, exitCode>>

RemoveIfd ==
    /\ pc = "removeIfds"
    /\ ii <= Len(args.removeIfds)
    /\ \E ok \in BOOLEAN :
          /\ calls' = Append(calls, Call("RemoveIfd", args.removeIfds[ii], 0, ""))
          /\ failedAt' = Failed(ok)
          /\ pc' = IF ok THEN pc ELSE "done"
          /\ ii' = IF ok THEN ii + 1 ELSE ii
          /\ exitCode' = IF ok THEN exitCode ELSE 1
    /\ UNCHANGED <<cmd, groups, args, parsed, parseErr, gi, ti, openFiles>>

RemoveIfdsDone ==
    /\ pc = "removeIfds"
    /\ ii > Len(args.removeIfds)
    /\ pc' = "write"
    /\ UNCHANGED <<cmd, groups, args, parsed, parseErr, gi, ti, ii, calls,
                   failedAt, openFiles, exitCode>>

Write ==
    /\ pc = "write"
    /\ \E ok \in BOOLEAN :
          LET done == IF args.output # "" THEN ok ELSE TRUE
          IN  /\ calls' = IF args.output # ""
                          THEN Append(calls, Call("Write", 0, 0, args.output))
                          ELSE calls
              /\ failedAt' = Failed(done)
              /\ exitCode' = IF done THEN 0 ELSE 1
    /\ pc' = "done"
    /\ UNCHANGED <<cmd, groups, args, parsed, parseErr, gi, ti, ii, openFiles>>

(***************************************************************************)
(* The command lines explored.  groups is the -r option as written, group  *)
(* by group and token by token; cmd.toRemove is its text.                  *)
(***************************************************************************)
RECURSIVE Join(_, _)
Join(parts, sep) ==
    IF parts = <<>> THEN <<>>
    ELSE IF Len(parts) = 1 THEN parts[1]
    ELSE parts[1] \o <<sep>> \o Join(Tail(parts), sep)

JoinGroups(gs) == Join([k \in 1..Len(gs) |-> Join(gs[k], ":")], ",")

SeqsUpTo(S, n) == UNION {[1..k -> S] : k \in 0..n}

T0 == <<"0">>
T1 == <<"1">>
T2 == <<"2">>
T5 == <<"5">>
Tabc == <<"a", "b", "c">>
T131 == <<"0", "x", "1", "3", "1">>
T132 == <<"0", "x", "1", "3", "2">>

Keep == <<"K", "e", "e", "p">>

DefaultCmd ==
    [version |-> FALSE, arguments |-> <<"in.jpg">>, store |-> Keep, all |-> FALSE,
     pTiff |-> FALSE, pExif |-> FALSE, pMaker |-> FALSE, pThumb |-> FALSE,
     print |-> "", original |-> "", tName |-> "", mtName |-> "",
     output |-> "out.jpg", toRemove |-> <<>>]

\* Command lines getArgs refuses, -v, and an empty -u.
ArgumentCmds ==
    { [DefaultCmd EXCEPT !.version = TRUE],
      [DefaultCmd EXCEPT !.arguments = <<>>],
      [DefaultCmd EXCEPT !.arguments = <<"in.jpg", "b.jpg">>],
      [DefaultCmd EXCEPT !.store = <<"z", "a", "p">>],
      [DefaultCmd EXCEPT !.store = <<>>],
      [DefaultCmd EXCEPT !.store = <<"r">>],
      [DefaultCmd EXCEPT !.store = <<"S", "t", "o", "p">>] }

\* -r options written out: "", "1", "1,1", "0:0x131:0x132,1", "2,2:5", "abc",
\* "1,abc", "1:abc", "2:5,2,abc", "1:5,2:5", "1:5:abc",
\* "1:5,0:0x131,1:5,0:0x132,2:5,0".
ExampleGroups ==
    { <<>>,
      << <<T1>> >>,
      << <<T1>>, <<T1>> >>,
      << <<T0, T131, T132>>, <<T1>> >>,
      << <<T2>>, <<T2, T5>> >>,
      << <<Tabc>> >>,
      << <<T1>>, <<Tabc>> >>,
      << <<T1, Tabc>> >>,
      << <<T2, T5>>, <<T2>>, <<Tabc>> >>,
      << <<T1, T5>>, <<T2, T5>> >>,
      << <<T1, T5, Tabc>> >>,
      << <<T1, T5>>, <<T0, T131>>, <<T1, T5>>, <<T0, T132>>, <<T2, T5>>, <<T0>> >> }

PrintSelections ==
    { [all |-> FALSE, pTiff |-> FALSE, pExif |-> FALSE, pMaker |-> FALSE],
      [all |-> FALSE, pTiff |-> TRUE, pExif |-> FALSE, pMaker |-> FALSE],
      [all |-> FALSE, pTiff |-> FALSE, pExif |-> TRUE, pMaker |-> TRUE],
      [all |-> TRUE, pTiff |-> FALSE, pExif |-> FALSE, pMaker |-> FALSE] }

\* Every stage of the pipeline switched on or off, on the written-out options.
PipelineCmds ==
    { [DefaultCmd EXCEPT !.all = sel.all, !.pTiff = sel.pTiff, !.pExif = sel.pExif,
                         !.pMaker = sel.pMaker, !.pThumb = pThumb, !.print = print,
                         !.original = original, !.tName = tName, !.mtName = mtName,
                         !.output = output] :
        sel \in PrintSelections, pThumb \in BOOLEAN, print \in {"", "print.txt"},
        original \in {"", "orig.bin"}, tName \in {"", "thumb.jpg"},
        mtName \in {"", "maker.jpg"}, output \in {"", "out.jpg"} }

\* Well-formed options: at most MaxGroups groups, each an IFD id followed by
\* at most MaxTags tags.
SectionTokens == {T0, T1}
TagTokens == {T131}
WellFormedGroups ==
    SeqsUpTo({<<sec>> \o ts : sec \in SectionTokens, ts \in SeqsUpTo(TagTokens, MaxTags)},
             MaxGroups)

\* One group of an IFD id with at most MaxTags + 1 tags, to tell the tags apart.
TagOrderGroups ==
    { << <<sec>> \o ts >> : sec \in {T0, T2}, ts \in SeqsUpTo({T5, T131, T132}, MaxTags + 1) }

\* Every token of at most MaxTokLen characters, as an IFD id or as a tag.
Alphabet == {"0", "1", "x", "b", "_", "-", "a"}
AnyTokens == SeqsUpTo(Alphabet, MaxTokLen)
TokenGroups == { << <<t>> >> : t \in AnyTokens } \cup { << <<T1, t>> >> : t \in AnyTokens }

Init ==
    /\ \/ /\ cmd \in ArgumentCmds
          /\ groups = <<>>
       \/ /\ groups \in ExampleGroups
          /\ cmd \in {[c EXCEPT !.toRemove = JoinGroups(groups)] : c \in PipelineCmds}
       \/ /\ groups \in WellFormedGroups \cup TagOrderGroups \cup TokenGroups
          /\ cmd = [DefaultCmd EXCEPT !.toRemove = JoinGroups(groups)]
    /\ args = ZeroArgs
    /\ parsed = NoPlan
    /\ parseErr = "notcalled"
    /\ pc = "getArgs"
    /\ gi = 1
    /\ ti = 1
    /\ ii = 1
    /\ calls = <<>>
    /\ failedAt = 0
    /\ openFiles = {}
    /\ exitCode = -1

Next ==
    \/ GetArgs
    \/ Read
    \/ ThumbnailInfo
    \/ Format
    \/ WriteOriginal
    \/ WriteThumbnail
    \/ WriteMakerThumbnail
    \/ RemoveTag
    \/ RemoveTagsAdvance
    \/ RemoveIfd
    \/ RemoveIfdsDone
    \/ Write

Spec == Init /\ [][Next]_vars

\* The shape of the state: the position in exifcheck, the loop indices, the
\* value parseRemoveString returned and the exit status (-1 while running).
TypeOK ==
    /\ pc \in {"getArgs", "read", "thumbs", "format", "original", "thumbnail",
               "makerThumb", "removeTags", "removeIfds", "write", "done"}
    /\ parseErr \in {"notcalled", "nil", "error"}
    /\ exitCode \in {-1, 0, 1, 2}
    /\ (exitCode # -1) = (pc = "done")
    /\ gi \in 1..(Len(args.removeTags) + 1)
    /\ ii \in 1..(Len(args.removeIfds) + 1)
    /\ ti >= 1
    /\ failedAt \in 0..Len(calls)
    /\ openFiles \subseteq {args.print}

(***************************************************************************)
(* What the documentation says of the option, independently of strconv:    *)
(* a token is a decimal literal ("0", or digits that do not start with 0)  *)
(* or a hexadecimal literal (0x and hexadecimal digits).                   *)
(***************************************************************************)
HexDigits == <<"0", "1", "2", "3", "4", "5", "6", "7", "8", "9",
               "a", "b", "c", "d", "e", "f">>

IsDecimalLit(tok) ==
    /\ Len(tok) >= 1
    /\ \A i \in 1..Len(tok) : tok[i] \in Range(DecDigits)
    /\ (Len(tok) > 1 => tok[1] # "0")

IsHexLit(tok) ==
    /\ Len(tok) >= 3
    /\ tok[1] = "0"
    /\ tok[2] = "x"
    /\ \A i \in 3..Len(tok) : tok[i] \in Range(HexDigits)

IsLiteral(tok) == IsDecimalLit(tok) \/ IsHexLit(tok)

RECURSIVE NumeralValue(_, _)
NumeralValue(digits, base) ==
    IF digits = <<>> THEN 0
    ELSE NumeralValue(SubSeq(digits, 1, Len(digits) - 1), base) * base
         + (IndexOf(HexDigits, digits[Len(digits)]) - 1)

LitValue(tok) == IF IsHexLit(tok) THEN NumeralValue(SubSeq(tok, 3, Len(tok)), 16)
                 ELSE NumeralValue(tok, 10)

\* The option was given and every token of it is a literal.
WellFormedOption ==
    /\ groups # <<>>
    /\ \A g \in 1..Len(groups) : \A t \in 1..Len(groups[g]) : IsLiteral(groups[g][t])

\* getArgs returned pArgs after calling parseRemoveString.
Parsed == parseErr # "notcalled"

\* The IFD ids of the groups written as an id alone, in the order written.
RECURSIVE WrittenIfds(_)
WrittenIfds(gs) ==
    IF gs = <<>> THEN <<>>
    ELSE (IF Len(gs[1]) = 1 THEN <<LitValue(gs[1][1])>> ELSE <<>>)
         \o WrittenIfds(Tail(gs))

\* One entry per group written with tags: its id and its tags as written.
RECURSIVE WrittenTags(_)
WrittenTags(gs) ==
    IF gs = <<>> THEN <<>>
    ELSE (IF Len(gs[1]) > 1
          THEN <<[ifdId |-> LitValue(gs[1][1]),
                  tags |-> [t \in 1..(Len(gs[1]) - 1) |-> LitValue(gs[1][t + 1])]]>>
          ELSE <<>>)
         \o WrittenTags(Tail(gs))

Wholly(g) == g.ifdId \in Range(parsed.removeIfds)
NotWholly(g) == g.ifdId \notin Range(parsed.removeIfds)

\* The calls of one kind, in the order made.
RemoveTagCall(c) == c.op = "RemoveTag"
RemoveIfdCall(c) == c.op = "RemoveIfd"
WriteCall(c) == c.op = "Write"

\* The (IFD, tag) pairs of the plan, group after group.
RECURSIVE PlanPairs(_)
PlanPairs(rt) ==
    IF rt = <<>> THEN <<>>
    ELSE [t \in 1..Len(rt[1].tags) |-> <<rt[1].ifdId, rt[1].tags[t]>>]
         \o PlanPairs(Tail(rt))

TagCallPairs ==
    [k \in 1..Len(SelectSeq(calls, RemoveTagCall)) |->
        <<SelectSeq(calls, RemoveTagCall)[k].id, SelectSeq(calls, RemoveTagCall)[k].tag>>]

IfdCallIds ==
    [k \in 1..Len(SelectSeq(calls, RemoveIfdCall)) |-> SelectSeq(calls, RemoveIfdCall)[k].id]

IsPrefix(s, t) == Len(s) <= Len(t) /\ s = SubSeq(t, 1, Len(s))

(***************************************************************************)
(* C1.  For every well-formed option, parseRemoveString returns without    *)
(* an error and leaves a plan in which no group of removeTags has an ifdId *)
(* that is also in removeIfds.                                             *)
(***************************************************************************)
C1_NoGroupOfRemovedIfd ==
    (Parsed /\ WellFormedOption) =>
        /\ parseErr = "nil"
        /\ \A i \in 1..Len(args.removeTags) :
              args.removeTags[i].ifdId \notin Range(args.removeIfds)

\* A well-formed option that named a group of a wholly removed IFD, and one of
\* another IFD, has been parsed and compacted.
C1_Witness ==
    /\ Parsed
    /\ WellFormedOption
    /\ args.removeIfds # <<>>
    /\ Len(args.removeTags) >= 1
    /\ Len(parsed.removeTags) > Len(args.removeTags)

(***************************************************************************)
(* C2.  The compaction is a stable filter: when the option parsed, the     *)
(* final removeTags is the as-parsed sequence without the groups whose     *)
(* ifdId is in removeIfds, the others in their order and unchanged, and    *)
(* removeIfds is as parsed.                                                *)
(***************************************************************************)
C2_StableFilter ==
    parseErr = "nil" =>
        /\ args.removeTags = SelectSeq(parsed.removeTags, NotWholly)
        /\ args.removeIfds = parsed.removeIfds

\* A dropped group came before two kept ones with different tags, so the kept
\* groups were moved down by the loop.
C2_Witness ==
    /\ parseErr = "nil"
    /\ \E i, j, k \in 1..Len(parsed.removeTags) :
          /\ i < j
          /\ j < k
          /\ Wholly(parsed.removeTags[i])
          /\ NotWholly(parsed.removeTags[j])
          /\ NotWholly(parsed.removeTags[k])
          /\ parsed.removeTags[j] # parsed.removeTags[k]

(***************************************************************************)
(* C3.  For every well-formed option the parsing loop handles the groups   *)
(* left to right: an id alone is appended to removeIfds and adds no group  *)
(* to removeTags; an id with k >= 1 tags appends one group, the id and its *)
(* k tags in the order written, and nothing to removeIfds; groups of the   *)
(* same id are not merged.                                                 *)
(***************************************************************************)
C3_ParseGroups ==
    (Parsed /\ WellFormedOption) =>
        /\ parsed.removeIfds = WrittenIfds(groups)
        /\ parsed.removeTags = WrittenTags(groups)

\* "0:0x131:0x132,1" has been parsed: the group (0, [0x131, 0x132]) and IFD 1.
C3_Witness ==
    /\ groups = << <<T0, T131, T132>>, <<T1>> >>
    /\ parsed.removeTags = <<[ifdId |-> 0, tags |-> <<305, 306>>]>>
    /\ parsed.removeIfds = <<1>>

(***************************************************************************)
(* C4.  A malformed option ends the run: once parseRemoveString has        *)
(* returned an error the run is over with exit status 1 and no call has    *)
(* been made (no removal, no Write).                                       *)
(***************************************************************************)
C4_ParseErrorIsTerminal ==
    parseErr = "error" => (pc = "done" /\ exitCode = 1 /\ calls = <<>>)

(***************************************************************************)
(* C5.  When parseRemoveString returns an error the plan is empty: nothing *)
(* of the groups before the offending token is left in removeIfds or       *)
(* removeTags.                                                             *)
(***************************************************************************)
C5_NoPartialPlan ==
    parseErr = "error" => (args.removeIfds = <<>> /\ args.removeTags = <<>>)

(***************************************************************************)
(* C6.  The removals are ordered: RemoveTag is called for the (IFD, tag)   *)
(* pairs of the plan in plan order, no RemoveTag follows a RemoveIfd, the  *)
(* RemoveIfd calls follow removeIfds, and when Write is called every       *)
(* removal of the plan has been called before it.                          *)
(***************************************************************************)
C6_RemovalsBeforeWrite ==
    /\ IsPrefix(TagCallPairs, PlanPairs(args.removeTags))
    /\ IsPrefix(IfdCallIds, args.removeIfds)
    /\ \A i, j \in 1..Len(calls) :
          (i < j /\ RemoveIfdCall(calls[i])) => ~RemoveTagCall(calls[j])
    /\ \A i \in 1..Len(calls) :
          WriteCall(calls[i]) =>
             /\ i = Len(calls)
             /\ TagCallPairs = PlanPairs(args.removeTags)
             /\ IfdCallIds = args.removeIfds

\* Write has been called after the tags of two groups and an IFD were removed.
C6_Witness ==
    /\ pc = "done"
    /\ Len(calls) > 0
    /\ WriteCall(calls[Len(calls)])
    /\ Len(args.removeTags) >= 2
    /\ Len(TagCallPairs) >= 2
    /\ Len(IfdCallIds) >= 1

(***************************************************************************)
(* C7.  The pipeline is fail-fast: after a call that returned an error no  *)
(* other call is made, and the run ends with exit status 1.  Stated for    *)
(* the runs in which parseRemoveString returned no error.                  *)
(***************************************************************************)
C7_FailFast ==
    (failedAt # 0 /\ parseErr # "error") =>
        (Len(calls) = failedAt /\ pc = "done" /\ exitCode = 1)

(***************************************************************************)
(* C8.  The whole-IFD removals are a set: no IFD id is twice in the plan,  *)
(* and RemoveIfd is called at most once for an IFD id.                     *)
(***************************************************************************)
C8_RemoveIfdOncePerId ==
    /\ \A i, j \in 1..Len(args.removeIfds) :
          i # j => args.removeIfds[i] # args.removeIfds[j]
    /\ \A i, j \in 1..Len(IfdCallIds) : i # j => IfdCallIds[i] # IfdCallIds[j]

(***************************************************************************)
(* C9.  Only decimal and 0x hexadecimal literals are accepted: an option   *)
(* with a token of any other form makes parseRemoveString return an error. *)
(***************************************************************************)
C9_OnlyDecimalOrHex ==
    (Parsed /\ ~WellFormedOption) => parseErr = "error"

(***************************************************************************)
(* C10.  Every file opened by the pipeline is closed when the run ends.    *)
(***************************************************************************)
C10_HandlesReleased ==
    pc = "done" => openFiles = {}

====
